---- MODULE Spec2Model ----
(***************************************************************************)
(* Clone orchestration of the DAX AI bot: the credential vault and the     *)
(* referral ledger of db.py, the master bot of bot.py (provisioning,       *)
(* referral links, reconcile on startup) and the per-clone worker of       *)
(* clone_worker.py.                                                        *)
(*                                                                         *)
(* Text is a sequence of one-character strings.  A table is the set of its *)
(* rows.  A Fernet token is the pair of the key it was made under and the  *)
(* plaintext it wraps (the random IV and the timestamp are left out).      *)
(***************************************************************************)
EXTENDS Integers, Sequences, FiniteSets, TLC

VARIABLES
    clones,              \* db.py table clones: a set of rows
    referrals,           \* db.py table referrals: a set of rows
    REFERRAL_THRESHOLD,  \* db.py:8, read from the environment at import
    inc_pc,              \* increment_referral between its two commits: <<user>> or <<>>
    api,                 \* the last db.py or db_postgres.py call made directly and what it returned
    master_up,           \* is the master process (bot.py) running
    user_instructions,   \* bot.py:61
    user_referrals,      \* bot.py:62
    referral_codes,      \* bot.py:63
    referral_users,      \* bot.py:64
    conv,                \* ConversationHandler state of /clone, per (chat, user)
    master_keys,         \* bot.py:25-34: the master's key pool, current_key_index and model
    user_data,           \* context.user_data, per user
    master_out,          \* the messages the master sent in its last handler
    procs,               \* the worker processes ever spawned, by pid
    worker_out,          \* the last update a worker handled and its reply
    valid_tokens,        \* the bot tokens the messaging transport accepts
    consumed,            \* history: (referrer, joiner) joins handled since the master started
    credited,            \* history: increments of a referrer's count, per joiner
    ledger_hist,         \* history: per user, the increment_referral calls returned and
                         \*   whether nothing but increment_referral has written the row
    validated,           \* history: the (user, token) pairs whose get_me in receive_token succeeded
    users,               \* db_postgres.py table users: a set of rows
    bc                   \* broadcast_cmd in progress: its tasks, semaphore and stats

dbVars     == <<clones, referrals, REFERRAL_THRESHOLD, inc_pc, api>>
masterVars == <<master_up, user_instructions, user_referrals, referral_codes,
                referral_users, conv, user_data, master_out, master_keys>>
histVars   == <<consumed, credited, ledger_hist, validated>>
workerVars == <<procs, worker_out, valid_tokens>>
broadcastVars == <<users, bc>>
vars       == <<clones, referrals, REFERRAL_THRESHOLD, inc_pc, api,
                master_up, user_instructions, user_referrals, referral_codes,
                referral_users, conv, user_data, master_out,
                procs, worker_out, valid_tokens, consumed, credited, ledger_hist,
                master_keys, validated, users, bc>>

(***************************************************************************)
(* Bounds and the sets the inputs are drawn from.                          *)
(***************************************************************************)
MaxCount  == 7   \* the ledger calls stop once a count has reached it
MaxProcs  == 2   \* worker processes ever spawned
MaxText   == 2   \* length of a typed text

DefaultThreshold == 5

Users     == {10, 20, 30}
Owners    == {10, 20}
Provisioners == {10}
Tokens    == {"tokA", "tokB"}
BotNames  == {"", "botA"}
Nonces    == {"9f3a01c2"}
VaultTexts == {<<>>, <<"a">>}
MASTER_KEY == "K1"
NoCall    == [op |-> "none"]
NoUpdate  == [pid |-> 0, handler |-> "none", sender |-> 0, text |-> <<>>, prompt |-> <<>>,
              kind |-> "none", reply |-> <<>>, error |-> ""]
NoHandler == [handler |-> "none", user |-> 0, msgs |-> <<>>]
Chats     == {"private", "group"}
\* the GEMINI_API_KEY_1..3 the master is started with: two keys, both configure
MasterPool == [keys |-> 2, bad |-> {}]
NoKeys    == [keys |-> 0, bad |-> {}, idx |-> 0, model |-> FALSE]
NoStats   == [sent |-> 0, failed |-> 0, removed |-> 0]
NoBroadcast == [st |-> "idle", task |-> <<>>, sem |-> 0, stats |-> NoStats, reply |-> "none"]
Alphabet  == {"a", " "}

RECURSIVE TextsUpTo(_)
TextsUpTo(n) ==
    IF n = 0 THEN {<<>>}
    ELSE LET S == TextsUpTo(n - 1)
         IN  S \cup {Append(s, c) : s \in {t \in S : Len(t) = n - 1}, c \in Alphabet}

Texts == TextsUpTo(MaxText)

(***************************************************************************)
(* Fernet (cryptography.fernet), as db.py uses it.                         *)
(***************************************************************************)
FernetEncrypt(key, plain) == [key |-> key, plain |-> plain]

\* a variant of decrypt that does not verify the token
FernetDecryptUnverified(key, tok) == [ok |-> TRUE, plain |-> tok.plain]

FernetDecrypt(key, tok) ==
    IF tok.key = key THEN [ok |-> TRUE, plain |-> tok.plain]
                     ELSE [ok |-> FALSE, plain |-> ""]

\* the MASTER_KEY an earlier run of the programme was started with
ForeignKey == "K0"

\* the key field of a token that was damaged in the file: no key verifies its HMAC
NoKey == ""

(***************************************************************************)
(* db.py: the clones table.                                                *)
(***************************************************************************)
CloneRows(tbl, user_id) == {r \in tbl : r.user_id = user_id}

\* a variant of the upsert whose DO UPDATE leaves the active column as it was
UpsertCloneKeepActive(tbl, row) ==
    LET old == CloneRows(tbl, row.user_id)
    IN  (tbl \ old) \cup
        {[row EXCEPT !.active = IF old = {} THEN TRUE ELSE (CHOOSE r \in old : TRUE).active]}

\* a variant that inserts the row whatever rows the owner already has (no ON CONFLICT)
InsertClone(tbl, row) == tbl \cup {[row EXCEPT !.active = TRUE]}

\* INSERT ... ON CONFLICT(user_id) DO UPDATE SET ..., active=1
UpsertClone(tbl, row) ==
    (tbl \ CloneRows(tbl, row.user_id)) \cup {[row EXCEPT !.active = TRUE]}

save_clone_tbl(tbl, user_id, token_plain, bot_username, instructions) ==
    UpsertClone(tbl, [user_id         |-> user_id,
                      bot_username    |-> bot_username,
                      token_encrypted |-> FernetEncrypt(MASTER_KEY, token_plain),
                      instructions    |-> instructions,
                      active          |-> TRUE])

\* a variant of the update that flips the active column
toggle_active_tbl(tbl, user_id) ==
    {IF r.user_id = user_id THEN [r EXCEPT !.active = ~r.active] ELSE r : r \in tbl}

deactivate_clone_tbl(tbl, user_id) ==
    {IF r.user_id = user_id THEN [r EXCEPT !.active = FALSE] ELSE r : r \in tbl}

\* What get_clone returns: None, the decrypted record, or the RuntimeError it raises.
get_clone_tbl(tbl, user_id) ==
    IF CloneRows(tbl, user_id) = {} THEN [tag |-> "None"]
    ELSE LET row == CHOOSE r \in CloneRows(tbl, user_id) : TRUE
             dec == FernetDecrypt(MASTER_KEY, row.token_encrypted)
         IN  IF ~dec.ok THEN [tag |-> "RuntimeError"]
             ELSE [tag          |-> "clone",
                   user_id      |-> row.user_id,
                   bot_username |-> row.bot_username,
                   token        |-> dec.plain,
                   instructions |-> row.instructions,
                   active       |-> row.active]

\* a variant that answers from the record as first provisioned, not from the table
get_clone_as_first_stored(user_id) ==
    get_clone_tbl(save_clone_tbl({}, user_id, "tokA", "botA", <<"a">>), user_id)

get_clone(user_id) == get_clone_tbl(clones, user_id)

RECURSIVE SortedSeq(_)
SortedSeq(S) ==
    IF S = {} THEN <<>>
    ELSE LET m == CHOOSE x \in S : \A y \in S : x <= y
         IN  <<m>> \o SortedSeq(S \ {m})

ActiveIds(tbl) == {r.user_id : r \in {q \in tbl : q.active}}

\* list_active_clones: the records in rowid order, or the RuntimeError of get_clone.
list_active_clones_tbl(tbl) ==
    LET ids == SortedSeq(ActiveIds(tbl))
    IN  IF \E i \in 1..Len(ids) : get_clone_tbl(tbl, ids[i]).tag = "RuntimeError"
        THEN [tag |-> "RuntimeError", rows |-> <<>>]
        ELSE [tag |-> "list", rows |-> [i \in 1..Len(ids) |-> get_clone_tbl(tbl, ids[i])]]

list_active_clones == list_active_clones_tbl(clones)

(***************************************************************************)
(* db.py: the referrals table.                                             *)
(***************************************************************************)
RefRows(tbl, user_id) == {r \in tbl : r.user_id = user_id}

\* get_referral: None or the row as a dict
get_referral_tbl(tbl, user_id) ==
    IF RefRows(tbl, user_id) = {} THEN [tag |-> "None"]
    ELSE LET row == CHOOSE r \in RefRows(tbl, user_id) : TRUE
         IN  [tag |-> "ref", user_id |-> row.user_id, count |-> row.count,
              verified |-> row.verified]

get_referral(user_id) == get_referral_tbl(referrals, user_id)

\* a variant of the insert that replaces an existing row (INSERT OR REPLACE)
ensure_referral_row_replace(tbl, user_id) ==
    (tbl \ RefRows(tbl, user_id)) \cup {[user_id |-> user_id, count |-> 0, verified |-> FALSE]}

\* INSERT OR IGNORE INTO referrals(user_id, count, verified) VALUES (?, 0, 0)
ensure_referral_row_tbl(tbl, user_id) ==
    IF RefRows(tbl, user_id) = {} THEN tbl \cup {[user_id |-> user_id, count |-> 0, verified |-> FALSE]}
    ELSE tbl

UpdateRef(tbl, user_id, Change(_)) ==
    {IF r.user_id = user_id THEN Change(r) ELSE r : r \in tbl}

\* increment_referral up to its first commit (db.py:107-110)
increment_count_tbl(tbl, user_id) ==
    LET Bump(r) == [r EXCEPT !.count = r.count + 1]
    IN  UpdateRef(ensure_referral_row_tbl(tbl, user_id), user_id, Bump)

\* a variant of the verified flip that compares with > instead of >=
increment_verify_strict(tbl, user_id, threshold) ==
    LET row  == CHOOSE r \in RefRows(tbl, user_id) : TRUE
        Flip(r) == [r EXCEPT !.verified = TRUE]
    IN  IF ~row.verified /\ row.count > threshold
        THEN UpdateRef(tbl, user_id, Flip) ELSE tbl

\* increment_referral from its SELECT to its return (db.py:111-117)
increment_verify_tbl(tbl, user_id, threshold) ==
    LET row  == CHOOSE r \in RefRows(tbl, user_id) : TRUE
        Flip(r) == [r EXCEPT !.verified = TRUE]
    IN  IF ~row.verified /\ row.count >= threshold
        THEN UpdateRef(tbl, user_id, Flip) ELSE tbl

\* increment_referral as one call: the table it leaves
increment_referral_tbl(tbl, user_id, threshold) ==
    increment_verify_tbl(increment_count_tbl(tbl, user_id), user_id, threshold)

\* the dict increment_referral returns
increment_referral_ret(tbl, user_id, threshold) ==
    get_referral_tbl(increment_referral_tbl(tbl, user_id, threshold), user_id)

set_referral_verified_tbl(tbl, user_id, verified) ==
    LET Set(r) == [r EXCEPT !.verified = verified]
    IN  UpdateRef(ensure_referral_row_tbl(tbl, user_id), user_id, Set)

set_referral_count_tbl(tbl, user_id, count, threshold) ==
    LET Set(r) == [r EXCEPT !.count = count, !.verified = (count >= threshold)]
    IN  UpdateRef(ensure_referral_row_tbl(tbl, user_id), user_id, Set)

\* how the callers read get_referral: `get_referral(uid) or {"count": 0, "verified": False}`
ReferralView(g) ==
    IF g.tag = "None" THEN [count |-> 0, verified |-> FALSE]
                      ELSE [count |-> g.count, verified |-> g.verified]

RefCount(tbl, user_id) ==
    IF RefRows(tbl, user_id) = {} THEN 0 ELSE (CHOOSE r \in RefRows(tbl, user_id) : TRUE).count

RefVerified(tbl, user_id) ==
    IF RefRows(tbl, user_id) = {} THEN FALSE ELSE (CHOOSE r \in RefRows(tbl, user_id) : TRUE).verified

(***************************************************************************)
(* The state before any process has started, on an empty database.         *)
(***************************************************************************)
InitButTables ==
    /\ referrals = {}
    /\ REFERRAL_THRESHOLD = DefaultThreshold
    /\ inc_pc = <<>>
    /\ api = NoCall
    /\ master_up = FALSE
    /\ user_instructions = <<>>
    /\ user_referrals = <<>>
    /\ referral_codes = <<>>
    /\ referral_users = <<>>
    /\ conv = [k \in Chats \X Users |-> "END"]
    /\ master_keys = NoKeys
    /\ user_data = [u \in Users |-> <<>>]
    /\ master_out = NoHandler
    /\ procs = <<>>
    /\ worker_out = NoUpdate
    /\ valid_tokens = Tokens
    /\ consumed = {}
    /\ credited = [pr \in Users \X Users |-> 0]
    /\ ledger_hist = [u \in Users |-> [incs |-> 0, only_inc |-> TRUE]]
    /\ validated = {}
    /\ bc = NoBroadcast

InitButVault == users = {} /\ InitButTables

Init == clones = {} /\ InitButVault

\* the vault an earlier run of the master left: a clone provisioned for each of `owners`
ProvisionedVault(owners) ==
    UNION {save_clone_tbl({}, u, "tokA", "botA", <<"a">>) : u \in owners}

\* the state before any process has started, on a database earlier runs have filled
InitProvisioned == (\E S \in SUBSET Owners : clones = ProvisionedVault(S)) /\ InitButVault

\* a row as some run of the programme, under `key`, stored it
StoredRow(user_id, key, active) ==
    [user_id         |-> user_id,
     bot_username    |-> "botA",
     token_encrypted |-> FernetEncrypt(key, "tokA"),
     instructions    |-> <<"a">>,
     active          |-> active]

\* the vaults earlier runs can have left: per owner no row, or a row stored under
\* this MASTER_KEY, under another, or damaged since, active or not
VaultsLeft ==
    LET rows == {StoredRow(u, k, a) : u \in Owners, k \in {MASTER_KEY, ForeignKey, NoKey},
                                      a \in BOOLEAN}
    IN  {v \in SUBSET rows : \A u \in Owners : Cardinality(CloneRows(v, u)) <= 1}

InitVaultsLeft == clones \in VaultsLeft /\ InitButVault

(***************************************************************************)
(* db.py called directly: the vault.                                       *)
(***************************************************************************)
VaultSave(user_id, token_plain, bot_username, instructions) ==
    /\ clones' = save_clone_tbl(clones, user_id, token_plain, bot_username, instructions)
    /\ api' = [op |-> "save_clone", user_id |-> user_id, token |-> token_plain,
               bot_username |-> bot_username, instructions |-> instructions]
    /\ UNCHANGED <<referrals, REFERRAL_THRESHOLD, inc_pc, masterVars, workerVars, histVars, broadcastVars>>

VaultDeactivate(user_id) ==
    /\ clones' = deactivate_clone_tbl(clones, user_id)
    /\ api' = [op |-> "deactivate_clone", user_id |-> user_id]
    /\ UNCHANGED <<referrals, REFERRAL_THRESHOLD, inc_pc, masterVars, workerVars, histVars, broadcastVars>>

VaultGet(user_id) ==
    /\ api' = [op |-> "get_clone", user_id |-> user_id, ret |-> get_clone(user_id)]
    /\ UNCHANGED <<clones, referrals, REFERRAL_THRESHOLD, inc_pc, masterVars, workerVars, histVars, broadcastVars>>

VaultList ==
    /\ api' = [op |-> "list_active_clones", ret |-> list_active_clones]
    /\ UNCHANGED <<clones, referrals, REFERRAL_THRESHOLD, inc_pc, masterVars, workerVars, histVars, broadcastVars>>

NextVault ==
    \/ \E u \in Owners, t \in Tokens, n \in BotNames, i \in VaultTexts : VaultSave(u, t, n, i)
    \/ \E u \in Owners : VaultDeactivate(u)
    \/ \E u \in Owners : VaultGet(u)
    \/ VaultList

SpecVault == Init /\ [][NextVault]_vars

(***************************************************************************)
(* db.py called directly: the referral ledger.  increment_referral commits *)
(* twice, so it is two steps; the other calls commit once.                 *)
(***************************************************************************)
HistIncremented(user_id) ==
    [ledger_hist EXCEPT ![user_id].incs =
        IF ledger_hist[user_id].only_inc THEN @ + 1 ELSE 0]

HistOverwritten(user_id) ==
    [ledger_hist EXCEPT ![user_id] = [incs |-> 0, only_inc |-> FALSE]]

LedgerIncrementCount(user_id) ==
    /\ inc_pc = <<>>
    /\ RefCount(referrals, user_id) < MaxCount
    /\ referrals' = increment_count_tbl(referrals, user_id)
    /\ inc_pc' = <<user_id>>
    /\ UNCHANGED <<clones, REFERRAL_THRESHOLD, api, masterVars, workerVars, histVars, broadcastVars>>

LedgerIncrementVerify ==
    /\ inc_pc # <<>>
    /\ LET user_id == inc_pc[1]
       IN  /\ referrals' = increment_verify_tbl(referrals, user_id, REFERRAL_THRESHOLD)
           /\ api' = [op |-> "increment_referral", user_id |-> user_id,
                      ret |-> get_referral_tbl(referrals', user_id)]
           /\ ledger_hist' = HistIncremented(user_id)
    /\ inc_pc' = <<>>
    /\ UNCHANGED <<clones, REFERRAL_THRESHOLD, masterVars, workerVars, consumed, credited, validated, broadcastVars>>

LedgerEnsureRow(user_id) ==
    /\ inc_pc = <<>>
    /\ referrals' = ensure_referral_row_tbl(referrals, user_id)
    /\ api' = [op |-> "ensure_referral_row", user_id |-> user_id]
    /\ UNCHANGED <<clones, REFERRAL_THRESHOLD, inc_pc, masterVars, workerVars, histVars, broadcastVars>>

LedgerSetVerified(user_id, verified) ==
    /\ inc_pc = <<>>
    /\ referrals' = set_referral_verified_tbl(referrals, user_id, verified)
    /\ api' = [op |-> "set_referral_verified", user_id |-> user_id, verified |-> verified]
    /\ ledger_hist' = HistOverwritten(user_id)
    /\ UNCHANGED <<clones, REFERRAL_THRESHOLD, inc_pc, masterVars, workerVars, consumed, credited, validated, broadcastVars>>

LedgerSetCount(user_id, count) ==
    /\ inc_pc = <<>>
    /\ referrals' = set_referral_count_tbl(referrals, user_id, count, REFERRAL_THRESHOLD)
    /\ api' = [op |-> "set_referral_count", user_id |-> user_id, count |-> count]
    /\ ledger_hist' = HistOverwritten(user_id)
    /\ UNCHANGED <<clones, REFERRAL_THRESHOLD, inc_pc, masterVars, workerVars, consumed, credited, validated, broadcastVars>>

\* another process reading the ledger, also between the two commits
LedgerGet(user_id) ==
    /\ api' = [op |-> "get_referral", user_id |-> user_id, ret |-> get_referral(user_id)]
    /\ UNCHANGED <<clones, referrals, REFERRAL_THRESHOLD, inc_pc, masterVars, workerVars, histVars, broadcastVars>>

NextLedger ==
    \/ \E u \in Owners : LedgerIncrementCount(u)
    \/ LedgerIncrementVerify
    \/ \E u \in Owners : LedgerEnsureRow(u)
    \/ \E u \in Owners, b \in BOOLEAN : LedgerSetVerified(u, b)
    \/ \E u \in Owners, c \in 0..MaxCount : LedgerSetCount(u, c)
    \/ \E u \in Owners : LedgerGet(u)

SpecLedger == Init /\ [][NextLedger]_vars

(***************************************************************************)
(* Python text and dict helpers.                                           *)
(***************************************************************************)
RECURSIVE lstrip(_)
lstrip(t) == IF t # <<>> /\ Head(t) = " " THEN lstrip(Tail(t)) ELSE t

RECURSIVE rstrip(_)
rstrip(t) == IF t # <<>> /\ t[Len(t)] = " " THEN rstrip(SubSeq(t, 1, Len(t) - 1)) ELSE t

\* str.strip()
strip(t) == rstrip(lstrip(t))

\* d[k] = v
DictSet(d, k, v) == [x \in (DOMAIN d) \cup {k} |-> IF x = k THEN v ELSE d[x]]

\* typed texts that are not blank
MessageTexts == {t \in Texts : \E i \in 1..Len(t) : t[i] # " "}

(***************************************************************************)
(* The messaging transport: get_me on a token.                             *)
(***************************************************************************)
BotUsername(token) == IF token = "tokA" THEN "botA" ELSE "botB"

\* what a get_me probe of `token` can end in
ProbeOutcomes(token) ==
    IF token \in valid_tokens THEN {"ok", "network_error"} ELSE {"rejected", "network_error"}

\* the owner deletes the bot or revokes its token at the transport
RevokeToken(token) ==
    /\ token \in valid_tokens
    /\ valid_tokens' = valid_tokens \ {token}
    /\ UNCHANGED <<dbVars, masterVars, procs, worker_out, histVars, broadcastVars>>

(***************************************************************************)
(* bot.py: the master.                                                     *)
(***************************************************************************)
LivePids == {p \in 1..Len(procs) : procs[p].st # "Exited"}

LiveWorkers(user_id) == {p \in LivePids : procs[p].owner = user_id}

NewWorker(user_id) ==
    [owner |-> user_id, st |-> "Starting", code |-> 0, why |-> "", token |-> "", model |-> FALSE,
     keys |-> 0, bad |-> {}, idx |-> 0]

\* spawn_clone_worker with Popen succeeding: one more process; nothing is stopped
spawn_clone_worker(ps, user_id) == Append(ps, NewWorker(user_id))

RECURSIVE SpawnAllUntilFailure(_, _, _)
\* a variant of the respawn loop that the first failing spawn ends
SpawnAllUntilFailure(st, ids, failing) ==
    IF ids = <<>> THEN st
    ELSE IF Head(ids) \in failing
    THEN [st EXCEPT !.attempts = Append(@, Head(ids))]
    ELSE SpawnAllUntilFailure([procs    |-> spawn_clone_worker(st.procs, Head(ids)),
                               attempts |-> Append(st.attempts, Head(ids))],
                              Tail(ids), failing)

RECURSIVE SpawnAll(_, _, _)
\* the respawn loop of main over the listed owners `ids`: each gets one call of
\* spawn_clone_worker, whose exception is logged inside the loop
SpawnAll(st, ids, failing) ==
    IF ids = <<>> THEN st
    ELSE SpawnAll([procs    |-> IF Head(ids) \in failing THEN st.procs
                                ELSE spawn_clone_worker(st.procs, Head(ids)),
                   attempts |-> Append(st.attempts, Head(ids))],
                  Tail(ids), failing)

\* what configure_gemini and the rotations return: how the call ended, and the
\* current_key_index and model it leaves
KeyState(tag, idx, model) == [tag |-> tag, idx |-> idx, model |-> model]

RECURSIVE master_configure_gemini(_, _, _, _, _)
\* bot.py configure_gemini: as the worker's, but the pool is never empty and the
\* failure of an only key is raised again
master_configure_gemini(n, bad, idx, model, depth) ==
    IF (idx + 1) \notin bad THEN KeyState("returned", idx, TRUE)
    ELSE IF n > 1
         THEN IF depth + 1 >= n THEN KeyState("RecursionError", idx, model)
              ELSE master_configure_gemini(n, bad, (idx + 1) % n, model, depth + 1)
         ELSE KeyState("Exception", idx, model)

\* bot.py switch_key
switch_key(n, bad, idx, model) == master_configure_gemini(n, bad, (idx + 1) % n, model, 0)

\* main: build the application, respawn the active clones, run_polling.
\* `failing` are the owners whose Popen raises.
MasterStart(failing) ==
    /\ ~master_up
    /\ LET active == list_active_clones
           ids    == [i \in 1..Len(active.rows) |-> active.rows[i].user_id]
       IN  /\ failing \subseteq {ids[i] : i \in 1..Len(ids)}
           /\ Len(procs) + Len(ids) - Cardinality(failing) <= MaxProcs
           /\ LET done == SpawnAll([procs |-> procs, attempts |-> <<>>], ids, failing)
              IN  /\ procs' = done.procs
                  /\ master_out' = [handler |-> "main", user |-> 0, loaded |-> active.tag,
                                    attempts |-> done.attempts, failed |-> failing,
                                    msgs |-> <<>>]
    /\ master_up' = TRUE
    /\ LET cfg == master_configure_gemini(MasterPool.keys, MasterPool.bad, 0, FALSE, 0)
       IN  \* an import that raises starts no master
           /\ MasterPool.keys > 0
           /\ cfg.tag = "returned"
           /\ master_keys' = [keys |-> MasterPool.keys, bad |-> MasterPool.bad,
                              idx |-> cfg.idx, model |-> cfg.model]
    /\ UNCHANGED <<dbVars, user_instructions, user_referrals, referral_codes, referral_users,
                   conv, user_data, worker_out, valid_tokens, histVars, broadcastVars>>

\* the master process ends; its dicts and conversations go with it, the workers stay
MasterStop ==
    /\ master_up
    /\ inc_pc = <<>>
    /\ master_up' = FALSE
    /\ user_instructions' = <<>>
    /\ user_referrals' = <<>>
    /\ referral_codes' = <<>>
    /\ referral_users' = <<>>
    /\ conv' = [k \in Chats \X Users |-> "END"]
    /\ master_keys' = NoKeys
    /\ user_data' = [u \in Users |-> <<>>]
    /\ master_out' = NoHandler
    /\ consumed' = {}
    /\ validated' = {}
    /\ UNCHANGED <<dbVars, workerVars, credited, ledger_hist, broadcastVars>>

ReferralCode(user_id, nonce) == [ref |-> user_id, nonce |-> nonce]

Msg(to, kind) == [to |-> to, kind |-> kind, count |-> 0, remaining |-> 0]

MsgN(to, kind, count, remaining) == [to |-> to, kind |-> kind, count |-> count, remaining |-> remaining]

Max(a, b) == IF a >= b THEN a ELSE b

\* `new_user_id not in referral_users` negated
AlreadyCounted(new_user_id, referrer_id) == new_user_id \in DOMAIN referral_users

\* handle_referral; `notified` is whether send_message to the referrer goes through
handle_referral(new_user_id, referral_code, notified) ==
    IF referral_code \in DOMAIN referral_codes
    THEN LET referrer_id == referral_codes[referral_code]
         IN  IF ~AlreadyCounted(new_user_id, referrer_id)
             THEN LET ref_row   == increment_referral_ret(referrals, referrer_id, REFERRAL_THRESHOLD)
                      remaining == Max(0, REFERRAL_THRESHOLD - ref_row.count)
                      unlock    == ~ref_row.verified /\ ref_row.count >= REFERRAL_THRESHOLD
                  IN  /\ RefCount(referrals, referrer_id) < MaxCount
                      /\ referral_users' = DictSet(referral_users, new_user_id, referrer_id)
                      /\ referrals' = increment_referral_tbl(referrals, referrer_id, REFERRAL_THRESHOLD)
                      /\ ledger_hist' = HistIncremented(referrer_id)
                      /\ user_referrals' = DictSet(user_referrals, referrer_id,
                             [count |-> ref_row.count, verified |-> ref_row.verified \/ unlock])
                      /\ master_out' = [handler |-> "start", user |-> new_user_id,
                             msgs |-> (IF ~notified THEN <<>>
                                       ELSE IF unlock THEN <<Msg(referrer_id, "premium_unlocked")>>
                                       ELSE <<MsgN(referrer_id, "joined", ref_row.count, remaining)>>)
                                      \o <<Msg(new_user_id, "welcome_referred")>>]
                      /\ consumed' = consumed \cup {<<referrer_id, new_user_id>>}
                      /\ credited' = [credited EXCEPT ![<<referrer_id, new_user_id>>] = IF @ < 2 THEN @ + 1 ELSE @]
             ELSE /\ master_out' = [handler |-> "start", user |-> new_user_id,
                                    msgs |-> <<Msg(new_user_id, "welcome_referred")>>]
                  /\ consumed' = consumed \cup {<<referrer_id, new_user_id>>}
                  /\ UNCHANGED <<referrals, referral_users, user_referrals, credited, ledger_hist>>
    ELSE /\ master_out' = [handler |-> "start", user |-> new_user_id,
                           msgs |-> <<Msg(new_user_id, "hello_no_referral")>>]
         /\ UNCHANGED <<referrals, referral_users, user_referrals, consumed, credited,
                        ledger_hist>>

\* /start ref_<code>
StartReferred(user_id, referral_code, notified) ==
    /\ master_up
    /\ inc_pc = <<>>
    /\ handle_referral(user_id, referral_code, notified)
    /\ UNCHANGED <<clones, REFERRAL_THRESHOLD, inc_pc, api, master_up, master_keys, user_instructions,
                   referral_codes, conv, user_data, workerVars, validated, broadcastVars>>

\* /start without a referral code
StartPlain(user_id) ==
    /\ master_up
    /\ master_out' = [handler |-> "start", user |-> user_id,
                      msgs |-> <<IF user_id \in DOMAIN user_referrals /\ ~user_referrals[user_id].verified
                                 THEN MsgN(user_id, "share_more", user_referrals[user_id].count,
                                           5 - user_referrals[user_id].count)
                                 ELSE Msg(user_id, "hello")>>]
    /\ UNCHANGED <<dbVars, master_up, master_keys, user_instructions, user_referrals, referral_codes,
                   referral_users, conv, user_data, workerVars, histVars, broadcastVars>>

cloned_apps == {}

\* /share
share_command(user_id, nonce) ==
    /\ master_up
    /\ list_active_clones.tag = "list"
    /\ IF user_id \notin cloned_apps /\ user_id \notin ActiveIds(clones)
       THEN /\ master_out' = [handler |-> "share", user |-> user_id,
                              msgs |-> <<Msg(user_id, "need_clone_first")>>]
            /\ UNCHANGED <<referral_codes, user_referrals>>
       ELSE LET refs == IF user_id \in DOMAIN user_referrals THEN user_referrals
                        ELSE DictSet(user_referrals, user_id, [count |-> 0, verified |-> FALSE])
            IN  /\ referral_codes' = DictSet(referral_codes, ReferralCode(user_id, nonce), user_id)
                /\ user_referrals' = refs
                /\ master_out' = [handler |-> "share", user |-> user_id,
                                  msgs |-> <<MsgN(user_id, "referral_link", refs[user_id].count,
                                                  5 - refs[user_id].count)>>]
    /\ UNCHANGED <<dbVars, master_up, master_keys, user_instructions, referral_users, conv, user_data,
                   workerVars, histVars, broadcastVars>>

\* /clone: the entry point of the conversation
clone(chat, user_id) ==
    /\ master_up
    /\ conv[<<chat, user_id>>] = "END"
    /\ conv' = [conv EXCEPT ![<<chat, user_id>>] = "ASK_TOKEN"]
    /\ master_out' = [handler |-> "clone", user |-> user_id, msgs |-> <<Msg(user_id, "send_token")>>]
    /\ UNCHANGED <<dbVars, master_up, master_keys, user_instructions, user_referrals, referral_codes,
                   referral_users, user_data, workerVars, histVars, broadcastVars>>

\* receive_token: the token is stored before get_me validates it
receive_token(chat, user_id, user_token, outcome) ==
    /\ master_up
    /\ conv[<<chat, user_id>>] = "ASK_TOKEN"
    /\ outcome \in ProbeOutcomes(user_token)
    /\ LET stored == DictSet(user_data[user_id], "clone_token", user_token)
       IN  IF outcome = "ok"
           THEN /\ user_data' = [user_data EXCEPT ![user_id] =
                                    DictSet(stored, "clone_username", BotUsername(user_token))]
                /\ conv' = [conv EXCEPT ![<<chat, user_id>>] = "ASK_INSTRUCTIONS"]
                /\ validated' = validated \cup {<<user_id, user_token>>}
                /\ master_out' = [handler |-> "receive_token", user |-> user_id,
                                  msgs |-> <<Msg(user_id, "token_valid")>>]
           ELSE /\ user_data' = [user_data EXCEPT ![user_id] = stored]
                /\ conv' = [conv EXCEPT ![<<chat, user_id>>] = "ASK_TOKEN"]
                /\ UNCHANGED validated
                /\ master_out' = [handler |-> "receive_token", user |-> user_id,
                                  msgs |-> <<Msg(user_id, IF outcome = "rejected" THEN "invalid_token"
                                                          ELSE "error_validating")>>]
    /\ UNCHANGED <<dbVars, master_up, master_keys, user_instructions, user_referrals, referral_codes,
                   referral_users, workerVars, consumed, credited, ledger_hist, broadcastVars>>

\* a variant of the try block that starts the worker before it saves the record
provision_spawn_first(tbl, ps, user_id, user_token, bot_username, instructions, saved, spawned) ==
    IF ~spawned THEN [clones |-> tbl, procs |-> ps, live |-> FALSE]
    ELSE IF ~saved THEN [clones |-> tbl, procs |-> spawn_clone_worker(ps, user_id), live |-> FALSE]
    ELSE [clones |-> save_clone_tbl(tbl, user_id, user_token, bot_username, instructions),
          procs  |-> spawn_clone_worker(ps, user_id), live |-> TRUE]

\* the try block of receive_instructions: save_clone, then spawn_clone_worker; the
\* first of them that raises ends it.  `saved` is whether save_clone commits,
\* `spawned` whether Popen succeeds.
provision(tbl, ps, user_id, user_token, bot_username, instructions, saved, spawned) ==
    IF ~saved THEN [clones |-> tbl, procs |-> ps, live |-> FALSE]
    ELSE IF ~spawned
    THEN [clones |-> save_clone_tbl(tbl, user_id, user_token, bot_username, instructions),
          procs  |-> ps, live |-> FALSE]
    ELSE [clones |-> save_clone_tbl(tbl, user_id, user_token, bot_username, instructions),
          procs  |-> spawn_clone_worker(ps, user_id), live |-> TRUE]

\* receive_instructions, with the token and the username user_data holds
receive_instructions(chat, user_id, text, saved, spawned) ==
    /\ master_up
    /\ conv[<<chat, user_id>>] = "ASK_INSTRUCTIONS"
    /\ Len(procs) < MaxProcs
    /\ LET instructions == strip(text)
           user_token   == user_data[user_id]["clone_token"]
           bot_username == user_data[user_id]["clone_username"]
           done         == provision(clones, procs, user_id, user_token, bot_username,
                                     instructions, saved, spawned)
       IN  /\ user_instructions' = DictSet(user_instructions, user_id, instructions)
           /\ clones' = done.clones
           /\ procs' = done.procs
           /\ user_referrals' = IF done.live
                                THEN DictSet(user_referrals, user_id, [count |-> 0, verified |-> FALSE])
                                ELSE user_referrals
           /\ master_out' = [handler |-> "receive_instructions", user |-> user_id,
                             saved |-> saved, token |-> user_token,
                             msgs |-> <<Msg(user_id, IF done.live THEN "bot_live"
                                                     ELSE "failed_to_start")>>]
    /\ conv' = [conv EXCEPT ![<<chat, user_id>>] = "END"]
    /\ UNCHANGED <<referrals, REFERRAL_THRESHOLD, inc_pc, api, master_up, master_keys, referral_codes,
                   referral_users, user_data, worker_out, valid_tokens, histVars, broadcastVars>>

\* /cancel inside the conversation
cancel(chat, user_id) ==
    /\ master_up
    /\ conv[<<chat, user_id>>] # "END"
    /\ conv' = [conv EXCEPT ![<<chat, user_id>>] = "END"]
    /\ master_out' = [handler |-> "cancel", user |-> user_id, msgs |-> <<Msg(user_id, "cancelled")>>]
    /\ UNCHANGED <<dbVars, master_up, master_keys, user_instructions, user_referrals, referral_codes,
                   referral_users, user_data, workerVars, histVars, broadcastVars>>

\* "429" in str(e) or "quota" in str(e).lower(), of the master's chat
MasterIsQuotaError(generation) == generation \in {"429", "quota"}

\* chat of the master: the generated answer, with the master's watermark for the
\* owner of an active clone who is not verified in user_referrals; a quota error
\* switches the master's key
chat(user_id, user_text, generation) ==
    /\ master_up
    /\ IF ~master_keys.model
       THEN /\ master_out' = [handler |-> "chat", user |-> user_id,
                              msgs |-> <<Msg(user_id, "not_configured")>>]
            /\ UNCHANGED master_keys
       ELSE IF generation = "text"
       THEN LET active == list_active_clones
                owners == {active.rows[i].user_id : i \in 1..Len(active.rows)}
                ref    == IF user_id \in DOMAIN user_referrals THEN user_referrals[user_id]
                          ELSE [count |-> 0, verified |-> FALSE]
            IN  /\ master_out' =
                      [handler |-> "chat", user |-> user_id,
                       msgs |-> <<IF active.tag = "RuntimeError" THEN Msg(user_id, "error")
                                  ELSE IF user_id \in owners /\ ~ref.verified
                                  THEN MsgN(user_id, "answer_watermarked", ref.count, 5 - ref.count)
                                  ELSE Msg(user_id, "answer")>>]
                /\ UNCHANGED master_keys
       ELSE IF MasterIsQuotaError(generation)
       THEN LET r == switch_key(master_keys.keys, master_keys.bad, master_keys.idx,
                                master_keys.model)
            IN  /\ master_keys' = [master_keys EXCEPT !.idx = r.idx, !.model = r.model]
                /\ master_out' = [handler |-> "chat", user |-> user_id,
                                  msgs |-> IF r.tag = "returned"
                                           THEN <<Msg(user_id, "quota_switching")>> ELSE <<>>]
       ELSE /\ master_out' = [handler |-> "chat", user |-> user_id,
                              msgs |-> <<Msg(user_id, "error")>>]
            /\ UNCHANGED master_keys
    /\ UNCHANGED <<dbVars, master_up, user_instructions, user_referrals, referral_codes,
                   referral_users, conv, user_data, workerVars, histVars, broadcastVars>>

(***************************************************************************)
(* clone_worker.py: one process per spawn, CLONE_USER_ID = procs[p].owner. *)
(***************************************************************************)
save_clone_arity == 4

GeneratedText == <<"o", "k">>

PromptSeparator == <<"\n", "\n", "U", "s", "e", "r", ":", " ">>

EchoPrefix == <<"Y", "o", "u", " ", "s", "a", "i", "d", ":", " ">>

WatermarkText(remaining) ==
    <<"\n\n----\n", "Made by @dn_aimaker_bot\n", ToString(remaining),
      " referrals needed to remove watermark">>

EndsWithWatermark(text) ==
    /\ Len(text) >= 4
    /\ \E n \in 0..REFERRAL_THRESHOLD : SubSeq(text, Len(text) - 3, Len(text)) = WatermarkText(n)

HasWatermark(text) ==
    \E i \in 1..Len(text) : text[i] = "Made by @dn_aimaker_bot\n"

\* a variant of the watermark lookup that reads the sender's referral row
SenderOfMessage(owner, sender) == sender

\* the user whose referral row decides the watermark: CLONE_USER_ID
WatermarkSubject(owner, sender) == owner

\* owner_remaining_referrals for the row of `user_id`
owner_remaining_referrals(user_id) ==
    LET ref == ReferralView(get_referral(user_id))
    IN  [remaining |-> Max(0, REFERRAL_THRESHOLD - ref.count), verified |-> ref.verified]

Watermarked(text, owner, sender) ==
    LET r == owner_remaining_referrals(WatermarkSubject(owner, sender))
    IN  IF ~r.verified THEN text \o WatermarkText(r.remaining) ELSE text

\* a variant of the prompt that joins with a single newline
BuildPromptOneNewline(instructions, user_text) ==
    IF instructions # <<>> THEN instructions \o <<"\n">> \o user_text ELSE user_text

\* f"{instructions}\n\nUser: {user_text}" if instructions else user_text
BuildPrompt(instructions, user_text) ==
    IF instructions # <<>> THEN instructions \o PromptSeparator \o user_text ELSE user_text

Exit(p, code, why) == [procs EXCEPT ![p].st = "Exited", ![p].code = code, ![p].why = why]

Handled(p, handler, sender, text, prompt, kind, reply) ==
    [pid |-> p, handler |-> handler, sender |-> sender, text |-> text, prompt |-> prompt,
     kind |-> kind, reply |-> reply, error |-> ""]

(***************************************************************************)
(* The generator key pool of a worker: GEMINI_API_KEYS has `n` keys, those *)
(* at the positions `bad` (1-based) fail to configure; `idx` is            *)
(* current_key_index (0-based) and `model` whether model is not None.      *)
(***************************************************************************)
PoolEnvVars == 3

RECURSIVE configure_gemini_last_key_fatal(_, _, _, _, _)
\* a variant in which the failure of the only key is not caught
configure_gemini_last_key_fatal(n, bad, idx, model, depth) ==
    IF n = 0 THEN KeyState("returned", idx, FALSE)
    ELSE IF (idx + 1) \notin bad THEN KeyState("returned", idx, TRUE)
    ELSE IF n > 1
         THEN IF depth + 1 >= n THEN KeyState("RecursionError", idx, model)
              ELSE configure_gemini_last_key_fatal(n, bad, (idx + 1) % n, model, depth + 1)
         ELSE KeyState("RecursionError", idx, model)

RECURSIVE configure_gemini(_, _, _, _, _)
\* configure_gemini entered with current_key_index = idx, `depth` failures deep.
\* Once every key of a pool of several has failed the recursion goes round the
\* pool again and again, until the interpreter raises RecursionError.
configure_gemini(n, bad, idx, model, depth) ==
    IF n = 0 THEN KeyState("returned", idx, FALSE)
    ELSE IF (idx + 1) \notin bad THEN KeyState("returned", idx, TRUE)
    ELSE IF n > 1
         THEN IF depth + 1 >= n THEN KeyState("RecursionError", idx, model)
              ELSE configure_gemini(n, bad, (idx + 1) % n, model, depth + 1)
         ELSE KeyState("returned", idx, FALSE)

\* a variant of rotate_gemini_key that steps the index without wrapping
rotate_gemini_key_no_wrap(n, bad, idx, model) ==
    IF n = 0 THEN KeyState("returned", idx, model)
    ELSE KeyState("returned", idx + 1, TRUE)

\* rotate_gemini_key
rotate_gemini_key(n, bad, idx, model) ==
    IF n = 0 THEN KeyState("returned", idx, model)
    ELSE configure_gemini(n, bad, (idx + 1) % n, model, 0)

RECURSIVE RotateTimes(_, _, _, _, _)
\* k calls of rotate_gemini_key in a row, stopping at the first that raises
RotateTimes(n, bad, idx, model, k) ==
    IF k = 0 THEN KeyState("returned", idx, model)
    ELSE LET r == rotate_gemini_key(n, bad, idx, model)
         IN  IF r.tag # "returned" THEN r ELSE RotateTimes(n, bad, r.idx, r.model, k - 1)

Pools == {[keys |-> n, bad |-> b] : n \in 0..PoolEnvVars, b \in SUBSET (1..PoolEnvVars)}

ExitNoUserId == 2

ExitNoRecord == 3

\* a variant of the record test that only an exception fails
RecordNotRaised(clone_rec) == clone_rec.tag # "RuntimeError"

\* `if not clone` negated
RecordLoaded(clone_rec) == clone_rec.tag = "clone"

\* The module body and main: CLONE_USER_ID (owner 0 stands for an unset one),
\* configure_gemini, load the clone record, build the application, poll.
\* The process is started with `n` keys in its environment, those at `bad` failing.
WorkerMain(p, n, bad) ==
    /\ p \in 1..Len(procs)
    /\ procs[p].st = "Starting"
    /\ bad \subseteq 1..n
    /\ LET cfg       == configure_gemini(n, bad, 0, FALSE, 0)
           clone_rec == get_clone(procs[p].owner)
           pooled    == [procs EXCEPT ![p].keys = n, ![p].bad = bad, ![p].idx = cfg.idx,
                                      ![p].model = cfg.model]
       IN  procs' = IF procs[p].owner = 0
                    THEN Exit(p, ExitNoUserId, "no_clone_user_id")
                    ELSE IF cfg.tag = "RecursionError"
                    THEN [pooled EXCEPT ![p].st = "Exited", ![p].code = 1,
                                        ![p].why = "uncaught_RecursionError"]
                    ELSE IF clone_rec.tag = "RuntimeError"
                    THEN [pooled EXCEPT ![p].st = "Exited", ![p].code = 1,
                                        ![p].why = "uncaught_RuntimeError"]
                    ELSE IF ~RecordLoaded(clone_rec)
                    THEN [pooled EXCEPT ![p].st = "Exited", ![p].code = ExitNoRecord,
                                        ![p].why = "no_clone_record"]
                    ELSE [pooled EXCEPT ![p].st = "Serving",
                                        ![p].token = IF clone_rec.tag = "clone"
                                                     THEN clone_rec.token ELSE ""]
    /\ UNCHANGED <<dbVars, masterVars, worker_out, valid_tokens, histVars, broadcastVars>>

\* a variant that keeps current_key_index and model where every worker reads them
WithKeyStateShared(ps, p, r) == [q \in DOMAIN ps |-> [ps[q] EXCEPT !.idx = r.idx, !.model = r.model]]

\* the globals current_key_index and model of process p after a rotation
WithKeyState(ps, p, r) == [ps EXCEPT ![p].idx = r.idx, ![p].model = r.model]

RetryNotice == <<"Bug error - please try again.">>

FailureNotice == <<"Sorry, I couldn't process that right now. Try again later">>

\* a variant of the error test that knows the status code only
IsQuotaErrorByCode(generation) == generation = "429"

\* "429" in str(e) or "quota" in str(e) or "rate" in str(e); `generation` names
\* the substring the error text carries
IsQuotaError(generation) == generation \in {"429", "quota", "rate"}

\* chat_handler; `probe` is what get_me on the stored token ends in, `generation`
\* what model.generate_content ends in
chat_handler(p, sender, user_text, probe, generation) ==
    /\ p \in 1..Len(procs)
    /\ procs[p].st = "Serving"
    /\ LET owner     == procs[p].owner
           clone_rec == get_clone(owner)
       IN  IF clone_rec.tag = "RuntimeError"
           THEN /\ worker_out' = Handled(p, "chat", sender, user_text, <<>>, "raised", <<>>)
                /\ UNCHANGED procs
           ELSE LET token        == IF clone_rec.tag = "clone" THEN clone_rec.token ELSE ""
                    instructions == IF clone_rec.tag = "clone" THEN clone_rec.instructions ELSE <<>>
                    prompt       == BuildPrompt(instructions, user_text)
                IN  /\ token # "" => probe \in ProbeOutcomes(token)
                    /\ token = "" => probe = "ok"
                    /\ IF probe # "ok"
                       THEN \* check_and_exit_if_bot_dead: sys.exit(0), nothing else
                            /\ procs' = Exit(p, 0, probe)
                            /\ worker_out' = Handled(p, "chat", sender, user_text, <<>>, "exited", <<>>)
                       ELSE IF ~procs[p].model
                       THEN /\ UNCHANGED procs
                            /\ worker_out' =
                                 Handled(p, "chat", sender, user_text, <<>>, "echo",
                                        Watermarked((IF instructions # <<>>
                                                     THEN instructions \o <<"\n", "\n">> ELSE <<>>)
                                                    \o EchoPrefix \o user_text, owner, sender))
                       ELSE IF generation = "text"
                       THEN /\ UNCHANGED procs
                            /\ worker_out' =
                                 Handled(p, "chat", sender, user_text, prompt, "answer",
                                        Watermarked(GeneratedText, owner, sender))
                       ELSE IF IsQuotaError(generation)
                       THEN \* rotate_gemini_key, then the notice; a rotation that raises
                            \* leaves the handler before the reply
                            LET r == rotate_gemini_key(procs[p].keys, procs[p].bad,
                                                       procs[p].idx, procs[p].model)
                            IN  /\ procs' = WithKeyState(procs, p, r)
                                /\ worker_out' =
                                      [(IF r.tag = "returned"
                                        THEN Handled(p, "chat", sender, user_text, prompt,
                                                     "retry_notice", RetryNotice)
                                        ELSE Handled(p, "chat", sender, user_text, prompt,
                                                     "raised", <<>>))
                                       EXCEPT !.error = generation]
                       ELSE /\ UNCHANGED procs
                            /\ worker_out' =
                                 [Handled(p, "chat", sender, user_text, prompt,
                                          "failure_notice", FailureNotice)
                                  EXCEPT !.error = generation]
    /\ UNCHANGED <<dbVars, masterVars, valid_tokens, histVars, broadcastVars>>

\* a variant of the owner test that compares the sender with itself
SenderIsNotSelf(sender_id, owner) == sender_id # sender_id

\* sender_id != CLONE_USER_ID
NotOwner(sender_id, owner) == sender_id # owner

RECURSIVE split(_)
\* str.split(): the words between runs of blanks
split(t) ==
    LET s == lstrip(t)
    IN  IF s = <<>> THEN <<>>
        ELSE LET n == CHOOSE k \in 1..Len(s) :
                          /\ \A i \in 1..k : s[i] # " "
                          /\ (k = Len(s) \/ s[k + 1] = " ")
             IN  <<SubSeq(s, 1, n)>> \o split(SubSeq(s, n + 1, Len(s)))

RECURSIVE join(_)
\* " ".join(words)
join(words) ==
    IF words = <<>> THEN <<>>
    ELSE IF Len(words) = 1 THEN words[1]
    ELSE words[1] \o <<" ">> \o join(Tail(words))

\* set_instructions; `arg_text` is what follows the command.  The call of save_clone
\* passes `passed` arguments; save_clone takes save_clone_arity, so a call with
\* another number raises TypeError, which the handler catches.
set_instructions_with(p, sender, arg_text, passed) ==
    /\ p \in 1..Len(procs)
    /\ procs[p].st = "Serving"
    /\ LET owner     == procs[p].owner
           clone_rec == IF NotOwner(sender, owner) THEN [tag |-> "None"] ELSE get_clone(owner)
           args      == split(arg_text)
           new_instructions == strip(join(args))
       IN  IF NotOwner(sender, owner)
           THEN /\ worker_out' = Handled(p, "set_instructions", sender, arg_text, <<>>, "only_owner", <<>>)
                /\ UNCHANGED clones
           ELSE IF clone_rec.tag = "RuntimeError"
           THEN /\ worker_out' = Handled(p, "set_instructions", sender, arg_text, <<>>, "raised", <<>>)
                /\ UNCHANGED clones
           ELSE IF clone_rec.tag = "None"
           THEN /\ worker_out' = Handled(p, "set_instructions", sender, arg_text, <<>>, "not_found", <<>>)
                /\ UNCHANGED clones
           ELSE IF args # <<>>
           THEN IF passed = save_clone_arity
                THEN /\ clones' = save_clone_tbl(clones, owner, clone_rec.token,
                                                 clone_rec.bot_username, new_instructions)
                     /\ worker_out' = Handled(p, "set_instructions", sender, arg_text, <<>>,
                                              "updated", <<>>)
                ELSE /\ worker_out' = Handled(p, "set_instructions", sender, arg_text, <<>>,
                                              "failed_to_save", <<>>)
                     /\ UNCHANGED clones
           ELSE /\ worker_out' = Handled(p, "set_instructions", sender, arg_text, <<>>,
                                         "current", clone_rec.instructions)
                /\ UNCHANGED clones
    /\ UNCHANGED <<referrals, REFERRAL_THRESHOLD, inc_pc, api, masterVars, procs, valid_tokens,
                   histVars, broadcastVars>>

\* clone_worker.py:112 passes five arguments to save_clone
set_instructions(p, sender, arg_text) == set_instructions_with(p, sender, arg_text, 5)

\* clear_instructions, whose save_clone call (clone_worker.py:131) passes five too
clear_instructions(p, sender) ==
    /\ p \in 1..Len(procs)
    /\ procs[p].st = "Serving"
    /\ LET owner     == procs[p].owner
           clone_rec == IF NotOwner(sender, owner) THEN [tag |-> "None"] ELSE get_clone(owner)
       IN  IF NotOwner(sender, owner)
           THEN /\ worker_out' = Handled(p, "clear_instructions", sender, <<>>, <<>>, "only_owner", <<>>)
                /\ UNCHANGED clones
           ELSE IF clone_rec.tag = "RuntimeError"
           THEN /\ worker_out' = Handled(p, "clear_instructions", sender, <<>>, <<>>, "raised", <<>>)
                /\ UNCHANGED clones
           ELSE IF clone_rec.tag = "None"
           THEN /\ worker_out' = Handled(p, "clear_instructions", sender, <<>>, <<>>, "not_found", <<>>)
                /\ UNCHANGED clones
           ELSE IF 5 = save_clone_arity
           THEN /\ clones' = save_clone_tbl(clones, owner, clone_rec.token,
                                            clone_rec.bot_username, <<>>)
                /\ worker_out' = Handled(p, "clear_instructions", sender, <<>>, <<>>, "cleared", <<>>)
           ELSE /\ worker_out' = Handled(p, "clear_instructions", sender, <<>>, <<>>,
                                         "failed_to_clear", <<>>)
                /\ UNCHANGED clones
    /\ UNCHANGED <<referrals, REFERRAL_THRESHOLD, inc_pc, api, masterVars, procs, valid_tokens,
                   histVars, broadcastVars>>

(***************************************************************************)
(* The referral programme of the master: /share, /start ref_..., restarts. *)
(***************************************************************************)
ReferralCodes == {ReferralCode(u, n) : u \in Owners, n \in Nonces}

NextReferral ==
    \/ MasterStart({})
    \/ MasterStop
    \/ \E u \in Users, c \in ReferralCodes, n \in BOOLEAN : StartReferred(u, c, n)
    \/ \E u \in Users : StartPlain(u)
    \/ \E u \in Users, n \in Nonces : share_command(u, n)

SpecReferral == InitProvisioned /\ [][NextReferral]_vars

(***************************************************************************)
(* The orchestration: provisioning through /clone, master restarts, and    *)
(* the workers they spawn, on a database that starts empty.                *)
(***************************************************************************)
Next ==
    \/ \E F \in SUBSET Provisioners : MasterStart(F)
    \/ MasterStop
    \/ \E u \in Provisioners : clone("private", u)
    \/ \E u \in Provisioners, t \in Tokens, o \in {"ok", "rejected", "network_error"} :
           receive_token("private", u, t, o)
    \/ \E u \in Provisioners, t \in {<<"a">>, <<" ", "a">>}, saved \in BOOLEAN, ok \in BOOLEAN :
           receive_instructions("private", u, t, saved, ok)
    \/ \E u \in Provisioners : cancel("private", u)
    \/ \E t \in Tokens : RevokeToken(t)
    \/ \E p \in 1..MaxProcs : WorkerMain(p, 1, {})
    \/ \E p \in 1..MaxProcs, o \in {"ok", "rejected", "network_error"} :
           chat_handler(p, 30, <<"a">>, o, "text")

Spec == Init /\ [][Next]_vars

(***************************************************************************)
(* The workers of the clones an earlier run provisioned, serving updates   *)
(* while other processes write the vault and the ledger through db.py.     *)
(***************************************************************************)
\* another process (the master re-provisioning) saves the owner's clone again
OtherProcessSavesClone(user_id, token_plain, bot_username, instructions) ==
    /\ clones' = save_clone_tbl(clones, user_id, token_plain, bot_username, instructions)
    /\ UNCHANGED <<referrals, REFERRAL_THRESHOLD, inc_pc, api, masterVars, workerVars, histVars, broadcastVars>>

\* a process started with another MASTER_KEY (a master restarted on a new key,
\* re-provisioning the owner) saves the owner's clone: the token is under `key`
OtherProcessSavesCloneUnder(key, user_id) ==
    /\ clones' = UpsertClone(clones, StoredRow(user_id, key, TRUE))
    /\ UNCHANGED <<referrals, REFERRAL_THRESHOLD, inc_pc, api, masterVars, workerVars, histVars,
                   broadcastVars>>

\* another process (the master handling a join) runs increment_referral: its first commit
OtherProcessIncrementCount(user_id) ==
    /\ RefCount(referrals, user_id) <= REFERRAL_THRESHOLD
    /\ LedgerIncrementCount(user_id)

\* and its second commit
OtherProcessIncrementVerify ==
    /\ inc_pc # <<>>
    /\ referrals' = increment_verify_tbl(referrals, inc_pc[1], REFERRAL_THRESHOLD)
    /\ ledger_hist' = HistIncremented(inc_pc[1])
    /\ inc_pc' = <<>>
    /\ UNCHANGED <<clones, REFERRAL_THRESHOLD, api, masterVars, workerVars, consumed, credited, validated, broadcastVars>>

NextWorker ==
    \/ MasterStart({})
    \/ \E n \in {0, 1} : WorkerMain(1, n, {})
    \/ \E u \in {10, 30}, t \in {<<"a">>, <<"a", " ">>}, g \in {"text", "quota", "error"} :
           chat_handler(1, u, t, "ok", g)
    \/ \E u \in {10, 30}, t \in {<<>>, <<"a", "a">>, <<"a", " ", "a">>} : set_instructions(1, u, t)
    \/ \E u \in {10, 30} : clear_instructions(1, u)
    \/ \E u \in Owners : OtherProcessSavesClone(u, "tokA", "botA", <<>>)
    \/ OtherProcessSavesCloneUnder(ForeignKey, 10)
    \/ OtherProcessIncrementCount(10)
    \/ OtherProcessIncrementVerify

SpecWorker == InitProvisioned /\ [][NextWorker]_vars

(***************************************************************************)
(* Starting up on the database earlier runs left: the master reconciles,   *)
(* workers load their records, db.py reads the vault.                      *)
(***************************************************************************)
\* clone_worker.py started from a shell with CLONE_USER_ID = user_id (0: unset)
LaunchWorker(user_id) ==
    /\ Len(procs) < MaxProcs
    /\ procs' = spawn_clone_worker(procs, user_id)
    /\ UNCHANGED <<dbVars, masterVars, worker_out, valid_tokens, histVars, broadcastVars>>

NextReconcile ==
    \/ \E F \in SUBSET Owners : MasterStart(F)
    \/ MasterStop
    \/ \E u \in {0, 30} : LaunchWorker(u)
    \/ \E p \in 1..MaxProcs : WorkerMain(p, 1, {})
    \/ \E p \in 1..MaxProcs : chat_handler(p, 30, <<"a">>, "ok", "text")
    \/ \E u \in Owners : VaultGet(u)
    \/ VaultList

SpecReconcile == InitVaultsLeft /\ [][NextReconcile]_vars

(***************************************************************************)
(* One worker and its generator key pool.                                  *)
(***************************************************************************)
NextKeys ==
    \/ MasterStart({})
    \/ \E pool \in Pools : WorkerMain(1, pool.keys, pool.bad)
    \/ \E u \in {10, 30}, g \in {"text", "429", "quota", "rate", "error"} :
           chat_handler(1, u, <<"a">>, "ok", g)
    \/ OtherProcessIncrementCount(10)
    \/ OtherProcessIncrementVerify

\* the database holds the clone of owner 10; no process runs yet
InitKeys == clones = ProvisionedVault({10}) /\ InitButVault

SpecKeys == InitKeys /\ [][NextKeys]_vars

(***************************************************************************)
(* broadcast_handlers.py on the users table of db_postgres.py.  A task is   *)
(* one send_to(uid): `pc` is where it stands, `first` and `retry` how its   *)
(* send_message calls ended.                                               *)
(***************************************************************************)
ADMIN_USER_ID == 10

\* BROADCAST_CONCURRENCY of the environment
BROADCAST_CONCURRENCY == 2

SendOutcomes == {"ok", "RetryAfter", "Forbidden", "BadRequest", "TelegramError"}

\* SELECT chat_id FROM users WHERE opted_out = false
get_all_subscribed_user_ids == {r.chat_id : r \in {q \in users : ~q.opted_out}}

\* DELETE FROM users WHERE chat_id = :chat_id
remove_user_tbl(tbl, chat_id) == {r \in tbl : r.chat_id # chat_id}

\* INSERT ... ON CONFLICT (chat_id) DO UPDATE SET username, last_seen: a new row is
\* subscribed, an existing row keeps its opted_out
insert_or_update_user_tbl(tbl, chat_id) ==
    IF \E r \in tbl : r.chat_id = chat_id THEN tbl
    ELSE tbl \cup {[chat_id |-> chat_id, opted_out |-> FALSE]}

\* UPDATE users SET opted_out = true WHERE chat_id = :chat_id
opt_out_user_tbl(tbl, chat_id) ==
    {IF r.chat_id = chat_id THEN [r EXCEPT !.opted_out = TRUE] ELSE r : r \in tbl}

\* the users tables earlier messages can have left: a row per user at most
UsersLeft ==
    LET rows == {[chat_id |-> u, opted_out |-> o] : u \in Users, o \in BOOLEAN}
    IN  {t \in SUBSET rows : \A u \in Users : Cardinality({r \in t : r.chat_id = u}) <= 1}

InitBroadcast == clones = {} /\ users \in UsersLeft /\ InitButTables

\* `attempts` counts the send_message calls made for the recipient, `counted` lists
\* the stats counters raised for it
NewTask == [pc |-> "waiting", first |-> "none", retry |-> "none", attempts |-> 0,
            counted |-> <<>>]

\* stats[c] += 1
Counted(stats, c) == [stats EXCEPT ![c] = @ + 1]

\* the counter the first send's outcome raises
FirstCounter(outcome) ==
    IF outcome = "ok" THEN "sent"
    ELSE IF outcome \in {"Forbidden", "BadRequest"} THEN "removed"
    ELSE "failed"

\* the counter the retry's outcome raises
RetryCounter(outcome) == IF outcome = "ok" THEN "sent" ELSE "failed"

\* a variant that waits and sends again while the retry ends in RetryAfter
RetryAgainOnRetryAfter(outcome) == outcome # "RetryAfter"

\* "one retry": whatever its outcome, the retry ends send_to
RetryIsLast(outcome) == TRUE

\* a variant of the gate that lets every task in
AcquireUnbounded(value) == TRUE

\* asyncio.Semaphore.acquire goes through while the value is positive
CanAcquire(value) == value > 0

\* the send_to bodies inside `async with sem`
InProgress == {uid \in DOMAIN bc.task : bc.task[uid].pc \in {"send", "retry_wait", "retry_send"}}

\* broadcast_cmd up to the creation of the tasks; `has_args` is whether a text follows
broadcast_cmd(sender, has_args) ==
    /\ bc.st # "running"
    /\ LET user_ids == get_all_subscribed_user_ids
       IN  bc' = IF sender # ADMIN_USER_ID
                 THEN [NoBroadcast EXCEPT !.st = "returned", !.reply = "not_authorized"]
                 ELSE IF ~has_args
                 THEN [NoBroadcast EXCEPT !.st = "returned", !.reply = "usage"]
                 ELSE IF user_ids = {}
                 THEN [NoBroadcast EXCEPT !.st = "returned", !.reply = "no_users"]
                 ELSE [st    |-> "running",
                       task  |-> [uid \in user_ids |-> NewTask],
                       sem   |-> BROADCAST_CONCURRENCY,
                       stats |-> NoStats,
                       reply |-> "starting"]
    /\ UNCHANGED <<dbVars, masterVars, workerVars, histVars, users>>

\* send_to(uid) enters `async with sem`, sleeps the delay and calls send_message
send_to_enter(uid) ==
    /\ bc.st = "running"
    /\ uid \in DOMAIN bc.task
    /\ bc.task[uid].pc = "waiting"
    /\ CanAcquire(bc.sem)
    /\ bc' = [bc EXCEPT !.sem = @ - 1, !.task[uid].pc = "send", !.task[uid].attempts = @ + 1]
    /\ UNCHANGED <<dbVars, masterVars, workerVars, histVars, users>>

\* the first send_message of send_to(uid) ends in `outcome`
send_to_first(uid, outcome) ==
    /\ bc.st = "running"
    /\ uid \in DOMAIN bc.task
    /\ bc.task[uid].pc = "send"
    /\ outcome \in SendOutcomes
    /\ IF outcome = "RetryAfter"
       THEN /\ bc' = [bc EXCEPT !.task[uid].pc = "retry_wait", !.task[uid].first = outcome]
            /\ UNCHANGED users
       ELSE /\ bc' = [bc EXCEPT !.task[uid].pc = "done", !.task[uid].first = outcome,
                                !.task[uid].counted = Append(@, FirstCounter(outcome)),
                                !.sem = @ + 1,
                                !.stats = Counted(@, FirstCounter(outcome))]
            /\ users' = IF outcome \in {"Forbidden", "BadRequest"}
                        THEN remove_user_tbl(users, uid) ELSE users
    /\ UNCHANGED <<dbVars, masterVars, workerVars, histVars>>

\* the sleep of the RetryAfter branch is over
send_to_retry_wait(uid) ==
    /\ bc.st = "running"
    /\ uid \in DOMAIN bc.task
    /\ bc.task[uid].pc = "retry_wait"
    /\ bc' = [bc EXCEPT !.task[uid].pc = "retry_send", !.task[uid].attempts = @ + 1]
    /\ UNCHANGED <<dbVars, masterVars, workerVars, histVars, users>>

\* the one retry ends in `outcome`: sent, or failed whatever the exception is
send_to_retry(uid, outcome) ==
    /\ bc.st = "running"
    /\ uid \in DOMAIN bc.task
    /\ bc.task[uid].pc = "retry_send"
    /\ outcome \in SendOutcomes
    /\ bc' = IF RetryIsLast(outcome)
             THEN [bc EXCEPT !.task[uid].pc = "done", !.task[uid].retry = outcome,
                             !.task[uid].counted = Append(@, RetryCounter(outcome)),
                             !.sem = @ + 1,
                             !.stats = Counted(@, RetryCounter(outcome))]
             ELSE [bc EXCEPT !.task[uid].pc = "retry_wait", !.task[uid].retry = outcome]
    /\ UNCHANGED <<dbVars, masterVars, workerVars, histVars, users>>

\* gather has returned: the summary reply
broadcast_finish ==
    /\ bc.st = "running"
    /\ \A uid \in DOMAIN bc.task : bc.task[uid].pc = "done"
    /\ bc' = [bc EXCEPT !.st = "returned", !.reply = "finished"]
    /\ UNCHANGED <<dbVars, masterVars, workerVars, histVars, users>>

\* track_user: any private message of the user
track_user(user_id) ==
    /\ users' = insert_or_update_user_tbl(users, user_id)
    /\ api' = [op |-> "insert_or_update_user", user_id |-> user_id]
    /\ UNCHANGED <<clones, referrals, REFERRAL_THRESHOLD, inc_pc, masterVars, workerVars,
                   histVars, bc>>

\* /stop
user_optout_cmd(user_id) ==
    /\ users' = opt_out_user_tbl(users, user_id)
    /\ api' = [op |-> "opt_out_user", user_id |-> user_id]
    /\ UNCHANGED <<clones, referrals, REFERRAL_THRESHOLD, inc_pc, masterVars, workerVars,
                   histVars, bc>>

NextBroadcast ==
    \/ \E s \in {ADMIN_USER_ID, 30}, a \in BOOLEAN : broadcast_cmd(s, a)
    \/ \E uid \in Users : send_to_enter(uid)
    \/ \E uid \in Users, o \in SendOutcomes : send_to_first(uid, o)
    \/ \E uid \in Users : send_to_retry_wait(uid)
    \/ \E uid \in Users, o \in SendOutcomes : send_to_retry(uid, o)
    \/ broadcast_finish
    \/ \E u \in Users : track_user(u)
    \/ \E u \in Users : user_optout_cmd(u)

SpecBroadcast == InitBroadcast /\ [][NextBroadcast]_vars

(***************************************************************************)
(* One user running /clone conversations with the master in two chats.     *)
(***************************************************************************)
NextIntake ==
    \/ MasterStart({})
    \/ MasterStop
    \/ \E c \in Chats : clone(c, 10)
    \/ \E c \in Chats, t \in Tokens, o \in {"ok", "rejected", "network_error"} :
           receive_token(c, 10, t, o)
    \/ \E c \in Chats, saved \in BOOLEAN, ok \in BOOLEAN :
           receive_instructions(c, 10, <<"a">>, saved, ok)
    \/ \E c \in Chats : cancel(c, 10)
    \/ RevokeToken("tokB")

SpecIntake == Init /\ [][NextIntake]_vars

(***************************************************************************)
(* The master and the workers of two clones, each rotating its own keys.   *)
(***************************************************************************)
NextRotation ==
    \/ MasterStart({})
    \/ MasterStop
    \/ \E p \in 1..MaxProcs : WorkerMain(p, 2, {})
    \/ \E p \in 1..MaxProcs, g \in {"text", "quota"} : chat_handler(p, 30, <<"a">>, "ok", g)
    \/ \E g \in {"text", "quota", "error"} : chat(30, <<"a">>, g)

\* the database holds the clones of both owners; no process runs yet
InitRotation == clones = ProvisionedVault(Owners) /\ InitButVault

SpecRotation == InitRotation /\ [][NextRotation]_vars

(***************************************************************************)
(* The claims.                                                             *)
(***************************************************************************)

\* C1: after any provisioning and any master restarts, no owner has more than one
\* live worker process.
C1_OneLiveWorkerPerOwner == \A u \in Users : Cardinality(LiveWorkers(u)) <= 1

\* C2: when the transport rejects the credential probe of a serving worker, the
\* worker terminates and its owner's clone record is left with active = false.
C2_RejectedProbeDeactivates ==
    [][\A p \in 1..Len(procs) :
          (procs[p].st = "Serving" /\ procs'[p].st = "Exited" /\ procs'[p].why = "rejected")
          => /\ CloneRows(clones', procs[p].owner) # {}
             /\ \A r \in CloneRows(clones', procs[p].owner) : ~r.active
             /\ procs[p].owner \notin ActiveIds(clones')
      ]_vars

\* C3: when the owner sends set_instructions X (X not blank) to their serving
\* worker, the stored instructions become X; and the prompt of a chat message T is
\* the stored instructions, "\n\nUser: " and T, or T alone when none are stored.
C3_SetThenPrompt ==
    [][(worker_out' # worker_out /\ worker_out'.pid \in 1..Len(procs)) =>
          LET o     == worker_out'
              owner == procs[o.pid].owner
          IN  /\ (/\ o.handler = "set_instructions"
                  /\ o.sender = owner
                  /\ get_clone(owner).tag = "clone"
                  /\ \E i \in 1..Len(o.text) : o.text[i] # " ")
                 => /\ get_clone_tbl(clones', owner).tag = "clone"
                    /\ get_clone_tbl(clones', owner).instructions = o.text
              /\ (o.handler = "chat" /\ o.kind \in {"answer", "retry_notice", "failure_notice"})
                 => LET stored == get_clone(owner).instructions
                    IN  o.prompt = IF stored = <<>> THEN o.text
                                   ELSE stored \o <<"\n", "\n", "U", "s", "e", "r", ":", " ">> \o o.text
      ]_vars

\* C9: a reply made from a generated text or from the echo fallback ends with the
\* watermark exactly when the persisted verified flag of the worker's owner is
\* false as the reply is made, and holds no watermark when that flag is true,
\* whoever the sender is.
C9_WatermarkIffOwnerUnverified ==
    [][(worker_out' # worker_out /\ worker_out'.pid \in 1..Len(procs)
                                 /\ worker_out'.handler = "chat"
                                 /\ worker_out'.kind \in {"answer", "echo"})
          => LET verified == RefVerified(referrals, procs[worker_out'.pid].owner)
             IN  /\ EndsWithWatermark(worker_out'.reply) <=> ~verified
                 /\ verified => ~HasWatermark(worker_out'.reply)
      ]_vars

C9_Witness ==
    /\ worker_out.handler = "chat"
    /\ worker_out.kind = "answer"
    /\ worker_out.sender = 30
    /\ ~HasWatermark(worker_out.reply)
    /\ RefVerified(referrals, procs[worker_out.pid].owner)
    /\ ~RefVerified(referrals, worker_out.sender)

\* C4: of two joins of one joiner through one referrer's link while the master
\* runs, the first raises the referrer's persisted count by 1 and the second by 0.
C4_TwiceCountsOnce ==
    [][\A j \in Users, c \in DOMAIN referral_codes, n \in BOOLEAN :
          StartReferred(j, c, n) =>
              LET r == referral_codes[c]
              IN  RefCount(referrals', r) =
                      RefCount(referrals, r) + (IF <<r, j>> \in consumed THEN 0 ELSE 1)
      ]_vars

\* C5: across master restarts too, a referrer's persisted count is raised at most
\* once for one joiner.
C5_CountedOnceEver == \A pr \in Users \X Users : credited[pr] <= 1

\* C6: a joiner who joined through referrer A's link and now joins through another
\* referrer B's link for the first time raises B's count by 1.
C6_KeyedByPair ==
    [][\A j \in Users, c \in DOMAIN referral_codes, n \in BOOLEAN :
          (/\ StartReferred(j, c, n)
           /\ credited[<<referral_codes[c], j>>] = 0
           /\ \E a \in Users : a # referral_codes[c] /\ credited[<<a, j>>] = 1)
          => RefCount(referrals', referral_codes[c]) = RefCount(referrals, referral_codes[c]) + 1
      ]_vars

\* C7: with threshold 5 and nothing but increment_referral applied to a user,
\* get_referral reads (k, false) after k = 0..4 returned increments (an absent
\* row reading as (0, false)) and (k, true) after the 5th and every later one.
C7_VerifiedFromFifth ==
    REFERRAL_THRESHOLD = 5 =>
        \A u \in Users :
            (ledger_hist[u].only_inc /\ inc_pc # <<u>>) =>
                ReferralView(get_referral(u)) =
                    [count |-> ledger_hist[u].incs, verified |-> ledger_hist[u].incs >= 5]

C7_Witness ==
    /\ REFERRAL_THRESHOLD = 5
    /\ inc_pc = <<>>
    /\ \E u \in Users : ledger_hist[u].only_inc /\ ledger_hist[u].incs = 6
    /\ \E u \in Users : ledger_hist[u].only_inc /\ ledger_hist[u].incs = 4

MonotoneStep ==
    \A u \in Users :
        /\ RefVerified(referrals, u) => RefVerified(referrals', u)
        /\ RefCount(referrals', u) >= RefCount(referrals, u)

C10_SaveThenGet ==
    api.op = "save_clone" =>
        get_clone(api.user_id) =
            [tag          |-> "clone",
             user_id      |-> api.user_id,
             bot_username |-> api.bot_username,
             token        |-> api.token,
             instructions |-> api.instructions,
             active       |-> TRUE]

C10_Witness ==
    /\ api.op = "save_clone"
    /\ get_clone(api.user_id).tag = "clone"
    /\ \E r \in clones : r.user_id # api.user_id /\ ~r.active

\* C11: get_clone of an owner whose stored token does not decrypt under MASTER_KEY
\* (stored under another key, or damaged) raises; it returns no record and no None.
C11_UndecryptableRaises ==
    api.op = "get_clone" =>
        \A r \in CloneRows(clones, api.user_id) :
            r.token_encrypted.key # MASTER_KEY => api.ret = [tag |-> "RuntimeError"]

C11_Witness ==
    /\ api.op = "get_clone"
    /\ api.ret.tag = "RuntimeError"
    /\ \E r \in CloneRows(clones, api.user_id) : r.token_encrypted.key = ForeignKey
    /\ \E r \in clones : r.user_id # api.user_id /\ r.token_encrypted.key = MASTER_KEY

\* C12: a start of the master in which list_active_clones returns makes one spawn
\* attempt for each active record, and every attempt that does not raise starts
\* a process, whichever other attempts raise.
C12_OneAttemptPerActive ==
    [][(~master_up /\ master_up' /\ master_out'.loaded = "list") =>
          LET att == master_out'.attempts
          IN  /\ \A u \in Users :
                    Cardinality({i \in 1..Len(att) : att[i] = u})
                        = IF u \in ActiveIds(clones) THEN 1 ELSE 0
              /\ \A u \in ActiveIds(clones) \ master_out'.failed :
                    Cardinality({q \in (1..Len(procs')) \ (1..Len(procs)) : procs'[q].owner = u}) = 1
      ]_vars

C12_Witness ==
    /\ master_up
    /\ master_out.handler = "main"
    /\ master_out.loaded = "list"
    /\ master_out.attempts = <<10, 20>>
    /\ master_out.failed = {10}
    /\ \E q \in 1..Len(procs) : procs[q].owner = 20

\* C13: in a start of the master, every active record that itself decrypts gets
\* its spawn attempt, also when another active record does not decrypt.
C13_BadTenantBlocksNone ==
    [][(~master_up /\ master_up') =>
          \A u \in ActiveIds(clones) :
              get_clone_tbl(clones, u).tag = "clone" =>
                  \E i \in 1..Len(master_out'.attempts) : master_out'.attempts[i] = u
      ]_vars

\* C14: a master whose read of the active clones failed at startup is not serving.
C14_ListFailureIsFatal ==
    (master_up /\ master_out.handler = "main") => master_out.loaded = "list"

\* C15 as claimed: for a worker with a pool of N >= 1 keys, whichever of them fail
\* to configure, N calls of rotate_gemini_key leave current_key_index as it was.
C15_RotateCyclicAnyPool ==
    \A p \in 1..Len(procs) :
        (procs[p].st = "Serving" /\ procs[p].keys >= 1) =>
            LET r == RotateTimes(procs[p].keys, procs[p].bad, procs[p].idx, procs[p].model,
                                 procs[p].keys)
            IN  r.tag = "returned" /\ r.idx = procs[p].idx

\* C15 as amended: for a worker with a pool of N >= 1 keys that all configure,
\* N calls of rotate_gemini_key leave current_key_index as it was.
C15_RotateCyclicGoodPool ==
    \A p \in 1..Len(procs) :
        (procs[p].st = "Serving" /\ procs[p].keys >= 1 /\ procs[p].bad = {}) =>
            LET r == RotateTimes(procs[p].keys, procs[p].bad, procs[p].idx, procs[p].model,
                                 procs[p].keys)
            IN  r.tag = "returned" /\ r.idx = procs[p].idx

C15_Witness ==
    /\ worker_out.kind = "retry_notice"
    /\ \E p \in 1..Len(procs) :
          /\ procs[p].st = "Serving" /\ procs[p].keys = 3 /\ procs[p].bad = {}
          /\ procs[p].idx = 2

\* C16 as claimed: a generation error whose text holds "quota" is answered with the
\* retry notice, without watermark, and current_key_index has advanced by exactly
\* one modulo the pool size.
C16_QuotaAdvancesByOne ==
    [][(worker_out' # worker_out /\ worker_out'.handler = "chat" /\ worker_out'.error = "quota") =>
          LET p == worker_out'.pid
          IN  /\ worker_out'.kind = "retry_notice"
              /\ worker_out'.reply = RetryNotice
              /\ ~HasWatermark(worker_out'.reply)
              /\ procs'[p].idx = (procs[p].idx + 1) % procs[p].keys
      ]_vars

\* C16 as amended: such an error is answered with the retry notice, without
\* watermark, and current_key_index has advanced to the next key, cyclically,
\* that configures: by exactly one when the key after the current one configures.
C16_QuotaAdvancesToNextGood ==
    [][(worker_out' # worker_out /\ worker_out'.handler = "chat" /\ worker_out'.error = "quota") =>
          LET p    == worker_out'.pid
              n    == procs[p].keys
              step(k) == (procs[p].idx + k) % n
          IN  /\ worker_out'.kind = "retry_notice"
              /\ worker_out'.reply = RetryNotice
              /\ ~HasWatermark(worker_out'.reply)
              /\ \E k \in 1..n :
                    /\ procs'[p].idx = step(k)
                    /\ (step(k) + 1) \notin procs[p].bad
                    /\ \A j \in 1..(k - 1) : (step(j) + 1) \in procs[p].bad
              /\ (step(1) + 1) \notin procs[p].bad => procs'[p].idx = step(1)
      ]_vars

C16_Witness ==
    /\ worker_out.handler = "chat"
    /\ worker_out.error = "quota"
    /\ worker_out.kind = "retry_notice"
    /\ procs[worker_out.pid].keys = 3
    /\ procs[worker_out.pid].bad = {1}
    /\ procs[worker_out.pid].idx = 1
    /\ ~RefVerified(referrals, procs[worker_out.pid].owner)

\* C17: configure_gemini returns for every pool and every set of failing keys: a
\* started worker did not die of it, and has a model only on a key that configures.
C17_ConfigureReturns ==
    \A p \in 1..Len(procs) :
        procs[p].st # "Starting" =>
            /\ procs[p].why # "uncaught_RecursionError"
            /\ procs[p].model => (procs[p].keys >= 1 /\ (procs[p].idx + 1) \notin procs[p].bad)

\* C18: set_instructions or clear_instructions from a sender who is not the owner
\* of the worker's clone is answered with the owner-only rejection and leaves the
\* clones table as it was.
C18_NonOwnerRejected ==
    [][(worker_out' # worker_out
          /\ worker_out'.handler \in {"set_instructions", "clear_instructions"}
          /\ worker_out'.sender # procs[worker_out'.pid].owner) =>
          /\ worker_out'.kind = "only_owner"
          /\ clones' = clones
      ]_vars

C18_Witness ==
    /\ worker_out.handler = "set_instructions"
    /\ worker_out.sender = 30
    /\ worker_out.text = <<"a", "a">>
    /\ worker_out.kind = "only_owner"
    /\ get_clone(procs[worker_out.pid].owner).tag = "clone"

\* C19: a worker process ends only because its token was rejected or because it
\* found no clone record at startup.
C19_ExitOnlyRejectedOrNoRecord ==
    [][\A p \in 1..Len(procs) :
          (procs[p].st # "Exited" /\ procs'[p].st = "Exited") =>
              procs'[p].why \in {"rejected", "no_clone_record"}
      ]_vars

\* C20: a worker started with a CLONE_USER_ID that has no record in the vault goes
\* from starting straight to exited, with exit code 3, which is neither 0 nor the
\* code of a missing CLONE_USER_ID, and handles no update.
C20_NoRecordExitsWithOwnCode ==
    [][\A p \in 1..Len(procs) :
          (procs[p].st = "Starting" /\ procs'[p] # procs[p] /\ procs[p].owner # 0
             /\ get_clone(procs[p].owner).tag = "None") =>
              /\ procs'[p].st = "Exited"
              /\ procs'[p].code = ExitNoRecord
              /\ procs'[p].code \notin {0, ExitNoUserId}
              /\ worker_out' = worker_out
      ]_vars

C20_Witness ==
    /\ \E p \in 1..Len(procs) :
          /\ procs[p].owner = 30 /\ procs[p].st = "Exited"
          /\ procs[p].why = "no_clone_record" /\ procs[p].code = 3
    /\ \E q \in 1..Len(procs) :
          procs[q].st = "Exited" /\ procs[q].why = "no_clone_user_id" /\ procs[q].code = 2

\* C22: after any sequence of save_clone and deactivate_clone calls the clones table
\* holds at most one row per owner, and the token column of every row is a Fernet
\* token under MASTER_KEY that decrypts to a credential; it is never the credential.
C22_OneRowCiphertext ==
    /\ \A u \in Users : Cardinality(CloneRows(clones, u)) <= 1
    /\ \A r \in clones :
          /\ r.token_encrypted = FernetEncrypt(MASTER_KEY, FernetDecrypt(MASTER_KEY, r.token_encrypted).plain)
          /\ FernetDecrypt(MASTER_KEY, r.token_encrypted).plain \in Tokens

C22_Witness ==
    /\ api.op = "save_clone"
    /\ api.token = "tokB"
    /\ \E r \in CloneRows(clones, api.user_id) : r.token_encrypted.plain = "tokB"
    /\ \E r \in clones : r.user_id # api.user_id /\ ~r.active /\ r.token_encrypted.plain = "tokA"

\* C23: deactivate_clone(user_id) leaves a table on which a second deactivate_clone(user_id)
\* changes nothing; afterwards list_active_clones does not return user_id; and for a
\* user_id without a row the table is left as it was.
C23_DeactivateIdempotent ==
    [][api'.op = "deactivate_clone" /\ api' # api =>
         /\ deactivate_clone_tbl(clones', api'.user_id) = clones'
         /\ list_active_clones_tbl(clones').tag = "list"
         /\ \A i \in 1..Len(list_active_clones_tbl(clones').rows) :
               list_active_clones_tbl(clones').rows[i].user_id # api'.user_id
         /\ (CloneRows(clones, api'.user_id) = {} => clones' = clones)
      ]_vars

C23_Witness ==
    /\ api.op = "deactivate_clone"
    /\ \E r \in CloneRows(clones, api.user_id) : ~r.active
    /\ \E r \in clones : r.user_id # api.user_id /\ r.active

\* C29: the prompt of every answered chat message is built from the instructions
\* the clones table holds for the worker's owner as the message is handled, so a
\* change another process saved since the previous message is in the next prompt.
C29_PromptFromStoredInstructions ==
    [][(worker_out' # worker_out /\ worker_out'.pid \in 1..Len(procs)
                                 /\ worker_out'.handler = "chat"
                                 /\ worker_out'.kind = "answer")
          => LET rec == get_clone_tbl(clones, procs[worker_out'.pid].owner)
             IN  /\ rec.tag = "clone"
                 /\ worker_out'.prompt = BuildPrompt(rec.instructions, worker_out'.text)
      ]_vars

\* the record was provisioned with instructions "a"; another process has emptied
\* them since, and the answered message's prompt is the bare message
C29_Witness ==
    /\ worker_out.handler = "chat"
    /\ worker_out.kind = "answer"
    /\ worker_out.pid \in 1..Len(procs)
    /\ get_clone_tbl(clones, procs[worker_out.pid].owner).tag = "clone"
    /\ get_clone_tbl(clones, procs[worker_out.pid].owner).instructions = <<>>
    /\ worker_out.prompt = BuildPrompt(<<>>, worker_out.text)
    /\ worker_out.prompt # BuildPrompt(<<"a">>, worker_out.text)

C27_SpawnAfterSave ==
    [][/\ \A q \in (Len(procs) + 1)..Len(procs') :
             \E r \in CloneRows(clones', procs'[q].owner) : r.active
       /\ (master_out' # master_out /\ master_out'.handler = "receive_instructions")
            => /\ ~master_out'.saved => (procs' = procs /\ clones' = clones)
               /\ Len(procs') > Len(procs)
                    => /\ master_out'.saved
                       /\ procs'[Len(procs')].owner = master_out'.user
                       /\ get_clone_tbl(clones', master_out'.user).tag = "clone"
                       /\ get_clone_tbl(clones', master_out'.user).token = master_out'.token
                       /\ get_clone_tbl(clones', master_out'.user).instructions
                             = user_instructions'[master_out'.user]
      ]_vars

\* a provisioning whose save_clone failed, after one that spawned a worker
C27_Witness ==
    /\ master_out.handler = "receive_instructions"
    /\ ~master_out.saved
    /\ Len(procs) = 1
    /\ procs[1].owner = master_out.user
    /\ get_clone_tbl(clones, procs[1].owner).tag = "clone"

\* C26: the token a receive_instructions call passes to save_clone is one that a
\* get_me probe of receive_token, made for that user since the master started,
\* accepted; whatever the order of the user's /clone conversations in the chats.
C26_PersistedWasValidated ==
    [][(master_out' # master_out /\ master_out'.handler = "receive_instructions"
                                 /\ master_out'.saved)
          => <<master_out'.user, master_out'.token>> \in validated
      ]_vars

\* C28: every chat message a Serving worker handles ends in a reply to the sender:
\* the generated answer, the echo, the retry notice or the failure notice.
C28_EveryMessageReplied ==
    [][(worker_out' # worker_out /\ worker_out'.handler = "chat")
          => /\ worker_out'.kind \in {"answer", "echo", "retry_notice", "failure_notice"}
             /\ worker_out'.reply # <<>>
      ]_vars

\* C21: a step in which one worker's current_key_index changes leaves the index and
\* the model of every other worker and of the master as they were, and a step in
\* which the master's index changes leaves those of every worker as they were.
C21_RotationIsLocal ==
    [][/\ \A p \in 1..Len(procs) :
             procs'[p].idx # procs[p].idx
                => /\ \A q \in (1..Len(procs)) \ {p} :
                         procs'[q].idx = procs[q].idx /\ procs'[q].model = procs[q].model
                   /\ master_keys' = master_keys
       /\ (master_up /\ master_up' /\ master_keys'.idx # master_keys.idx)
             => \A q \in 1..Len(procs) :
                   procs'[q].idx = procs[q].idx /\ procs'[q].model = procs[q].model
      ]_vars

\* both workers serve on the same pool size as the master; one worker has rotated,
\* the other worker and the master have not
C21_Witness ==
    /\ Len(procs) = 2
    /\ procs[1].st = "Serving" /\ procs[2].st = "Serving"
    /\ procs[1].keys = 2 /\ procs[2].keys = 2
    /\ procs[1].idx = 1
    /\ procs[2].idx = 0
    /\ master_up /\ master_keys.idx = 0
    /\ worker_out.handler = "chat" /\ worker_out.kind = "retry_notice" /\ worker_out.pid = 1

\* C24: at every moment of a broadcast at most BROADCAST_CONCURRENCY send_to bodies
\* are between entering the semaphore and leaving it (first send, retry wait or
\* retry send), however many recipients there are.
C24_AtMostConcurrencyInProgress ==
    /\ Cardinality(InProgress) <= BROADCAST_CONCURRENCY
    /\ bc.st = "running" => bc.sem = BROADCAST_CONCURRENCY - Cardinality(InProgress)

\* more recipients than the gate lets in: the gate is full, one body in its retry
\* wait and one in its retry send, and a third task waits outside
C24_Witness ==
    /\ bc.st = "running"
    /\ Cardinality(DOMAIN bc.task) > BROADCAST_CONCURRENCY
    /\ Cardinality(InProgress) = BROADCAST_CONCURRENCY
    /\ \E uid \in DOMAIN bc.task : bc.task[uid].pc = "waiting"
    /\ \E uid \in DOMAIN bc.task : bc.task[uid].pc = "retry_wait"
    /\ \E uid \in DOMAIN bc.task : bc.task[uid].pc = "retry_send"

\* C25: a send of a broadcast that ends in Forbidden or BadRequest, the first or
\* the retry, leaves no row of that recipient in users; and when the broadcast
\* sends its summary every recipient has had a send attempt and
\* sent + failed + removed is the number of recipients.
C25_BlockedRecipientsRemoved ==
    [][/\ (bc.st = "running" /\ bc'.st = "running")
            => \A uid \in DOMAIN bc.task :
                  (bc'.task[uid] # bc.task[uid]
                     /\ (bc'.task[uid].first \in {"Forbidden", "BadRequest"}
                           \/ bc'.task[uid].retry \in {"Forbidden", "BadRequest"}))
                  => \A r \in users' : r.chat_id # uid
       /\ (bc.st = "running" /\ bc'.st = "returned")
            => /\ bc'.reply = "finished"
               /\ \A uid \in DOMAIN bc'.task : bc'.task[uid].first # "none"
               /\ bc'.stats.sent + bc'.stats.failed + bc'.stats.removed
                     = Cardinality(DOMAIN bc'.task)
      ]_vars

\* C31: in the join that flips a referrer's persisted verified flag (the count
\* reaches the threshold for the first time), the notification the master sends
\* the referrer is the premium-unlocked one, not the progress notice.
C31_UnlockNotifiedOnCrossing ==
    [][\A r \in Users :
          (master_out'.handler = "start" /\ ~RefVerified(referrals, r) /\ RefVerified(referrals', r))
             => \A i \in 1..Len(master_out'.msgs) :
                   (master_out'.msgs[i].to = r
                      /\ master_out'.msgs[i].kind \in {"joined", "premium_unlocked"})
                   => master_out'.msgs[i].kind = "premium_unlocked"
      ]_vars

\* C32: a get_referral made by another process for a user whose row only
\* increment_referral has written, also while an increment_referral for that user
\* is between its two commits, never returns count >= REFERRAL_THRESHOLD together
\* with verified = false.
C32_ReaderNeverSeesUnverifiedAtThreshold ==
    [][(api' # api /\ api'.op = "get_referral" /\ ledger_hist[api'.user_id].only_inc)
          => ~(ReferralView(api'.ret).count >= REFERRAL_THRESHOLD
                 /\ ~ReferralView(api'.ret).verified)
      ]_vars

\* C33: the count the master shows from its user_referrals entry in /start and
\* /share is the count of the user's persisted referral row, and /start treats the
\* user as unverified only when the persisted row is unverified.
C33_CacheEqualsLedger ==
    [][(master_out' # master_out /\ master_out'.handler \in {"start", "share"})
          => \A i \in 1..Len(master_out'.msgs) :
                (master_out'.msgs[i].kind \in {"referral_link", "share_more"})
                => /\ master_out'.msgs[i].count = RefCount(referrals', master_out'.msgs[i].to)
                   /\ master_out'.msgs[i].kind = "share_more"
                        => ~RefVerified(referrals', master_out'.msgs[i].to)
      ]_vars

\* C34: the remaining-referrals number of every master message that shows one (the
\* join notice, the /start reminder, the /share progress) is
\* max(0, REFERRAL_THRESHOLD - count) for the count the message shows; it is never
\* negative.
C34_RemainingIsClamped ==
    \A i \in 1..Len(master_out.msgs) :
        master_out.msgs[i].kind \in {"joined", "share_more", "referral_link", "answer_watermarked"}
        => /\ master_out.msgs[i].remaining >= 0
           /\ master_out.msgs[i].remaining = Max(0, REFERRAL_THRESHOLD - master_out.msgs[i].count)

C36_MessageResubscribes ==
    [][/\ (api.op = "opt_out_user" /\ api'.op = "insert_or_update_user"
                                   /\ api'.user_id = api.user_id)
            => api'.user_id \in {r.chat_id : r \in {q \in users' : ~q.opted_out}}
       /\ (bc.st # "running" /\ bc'.st = "running")
            => \A uid \in DOMAIN bc'.task : \A r \in users : r.chat_id = uid => ~r.opted_out
      ]_vars

====
